---- MODULE Spec2Model ----
(***************************************************************************)
(* Model of the AI Hijabi Model Studio API (src/main.py, src/schemas.py).  *)
(* One action per HTTP handler.  The document-store helpers imported from   *)
(* the `database` module (db, create_document, get_documents) are not part *)
(* of the sources at hand; they are modelled from the store contract of    *)
(* the specification (section 4.1).                                         *)
(***************************************************************************)
EXTENDS Integers, Sequences, FiniteSets, TLC

VARIABLES db, store, nextId, req, resp, calls, posted, lastGet

vars == <<db, store, nextId, req, resp, calls, posted, lastGet>>

(* ------------------------------ bounds -------------------------------- *)
\* Largest number of documents the store holds over all collections.
MaxDocs == 2
\* Largest number of collections in the database besides the API's own.
MaxExtraCollections == 10

(* ----------------------------- constants ------------------------------ *)
None == "<None>"
EmptyDict == "{}"
EmptyList == <<>>

\* collections[:10]
ListLimit == 10

Collections == {"model", "pipeline", "dataset", "job"}

\* schemas.Job.type
JobTypes ==
    {"face", "fullbody", "angles360", "expression", "background", "dress", "dataset"}

\* schemas.Job.status
JobStatuses == {"queued", "running", "succeeded", "failed"}

(* --------------------------- request bodies --------------------------- *)
\* A JSON body is a function from the keys it holds to their values.
EmptyBody == [k \in {} |-> k]

\* The bodies that hold key k with a value of S, or do not hold it.
Opt(k, S) == {EmptyBody} \cup { (k :> v) : v \in S }

Has(body, k) == k \in DOMAIN body
Get(body, k, default) == IF Has(body, k) THEN body[k] ELSE default

JobBodies ==
    { t @@ s @@ p :
        t \in Opt("type", {"face", "sparkle"}),
        s \in Opt("status", {"running", "bogus"}),
        p \in Opt("progress", {40}) }

ModelBodies ==
    { n @@ d :
        n \in Opt("name", {"Aisha v1"}),
        d \in Opt("description", {"studio look"}) }

PipelineBodies ==
    { n @@ v :
        n \in Opt("name", {"portrait"}),
        v \in Opt("version", {"2.0"}) }

\* status and progress are no fields of GenerateRequest: a body may still
\* carry them.
GenerateBodies ==
    { t @@ x :
        t \in Opt("task", {"face", "dress", "dataset", "sparkle"}),
        x \in {EmptyBody, [status |-> "running", progress |-> 40]} }

(* ------------------------- schema validation -------------------------- *)
Invalid == [ok |-> FALSE]
Valid(v) == [ok |-> TRUE, value |-> v]

ValidateModel(body) ==
    IF ~Has(body, "name") THEN Invalid
    ELSE Valid([name |-> body["name"],
                description |-> Get(body, "description", None),
                identity_seed |-> None,
                tags |-> EmptyList,
                style_preset |-> None,
                face_embeddings |-> None,
                consistency_profile |-> EmptyDict])

ValidatePipeline(body) ==
    IF ~Has(body, "name") THEN Invalid
    ELSE Valid([name |-> body["name"],
                version |-> Get(body, "version", "1.0"),
                is_active |-> TRUE,
                nodes |-> EmptyList,
                edges |-> EmptyList])

\* ValidateJob with type declared str instead of Literal[...].
ValidateJobAnyType(body) ==
    IF ~Has(body, "type") THEN Invalid
    ELSE IF Has(body, "status") /\ body["status"] \notin JobStatuses THEN Invalid
    ELSE Valid([type |-> body["type"],
                model_id |-> Get(body, "model_id", None),
                pipeline_id |-> Get(body, "pipeline_id", None),
                params |-> Get(body, "params", EmptyDict),
                status |-> Get(body, "status", "queued"),
                progress |-> Get(body, "progress", 0),
                output |-> EmptyList])

ValidateJob(body) ==
    IF ~Has(body, "type") THEN Invalid
    ELSE IF body["type"] \notin JobTypes THEN Invalid
    ELSE IF Has(body, "status") /\ body["status"] \notin JobStatuses THEN Invalid
    ELSE Valid([type |-> body["type"],
                model_id |-> Get(body, "model_id", None),
                pipeline_id |-> Get(body, "pipeline_id", None),
                params |-> Get(body, "params", EmptyDict),
                status |-> Get(body, "status", "queued"),
                progress |-> Get(body, "progress", 0),
                output |-> EmptyList])

ValidateGenerateRequest(body) ==
    IF ~Has(body, "task") THEN Invalid
    ELSE Valid([model_id |-> Get(body, "model_id", None),
                pipeline_id |-> Get(body, "pipeline_id", None),
                task |-> body["task"],
                promptless |-> TRUE,
                params |-> Get(body, "params", EmptyDict)])

(* --------------------------- document store --------------------------- *)
\* The store assigns the identifiers 1, 2, ...; str() of one is its numeral.
ObjectId(n) == n
Str(oid) == ToString(oid)

StoreCall(op, coll, ok) == [op |-> op, coll |-> coll, ok |-> ok]

TotalDocs == Len(store["model"]) + Len(store["pipeline"])
             + Len(store["dataset"]) + Len(store["job"])

\* insert(collection, record) -> identifier.  Fails with StoreUnavailable when
\* the store was never initialized, with StoreError on an I/O fault.
create_document(coll, data, fault) ==
    IF db = None
    THEN [ok |-> FALSE, error |-> "StoreUnavailable",
          store |-> store, nextId |-> nextId, calls |-> <<>>]
    ELSE IF fault
    THEN [ok |-> FALSE, error |-> "StoreError",
          store |-> store, nextId |-> nextId,
          calls |-> <<StoreCall("insert_one", coll, FALSE)>>]
    ELSE [ok |-> TRUE, id |-> Str(ObjectId(nextId)),
          store |-> [store EXCEPT
                       ![coll] = Append(@, data @@ ("_id" :> ObjectId(nextId)))],
          nextId |-> nextId + 1,
          calls |-> <<StoreCall("insert_one", coll, TRUE)>>]

\* findAll(collection) -> the records with their raw identifier field; the
\* empty sequence when the store was never initialized.
get_documents(coll, fault) ==
    IF db = None
    THEN [ok |-> TRUE, docs |-> <<>>, calls |-> <<>>]
    ELSE IF fault
    THEN [ok |-> FALSE, error |-> "StoreError",
          calls |-> <<StoreCall("find", coll, FALSE)>>]
    ELSE [ok |-> TRUE, docs |-> store[coll],
          calls |-> <<StoreCall("find", coll, TRUE)>>]

CollectionName(i) == "collection_" \o ToString(i)

RECURSIVE OwnNames(_)
OwnNames(cs) ==
    IF cs = <<>> THEN <<>>
    ELSE (IF store[Head(cs)] /= <<>> THEN <<Head(cs)>> ELSE <<>>)
         \o OwnNames(Tail(cs))

\* listCollectionNames(): the collections that exist in the database, `extra`
\* of them not the API's own.
list_collection_names(extra, fault) ==
    IF fault
    THEN [ok |-> FALSE, error |-> "StoreError",
          calls |-> <<StoreCall("list_collection_names", "", FALSE)>>]
    ELSE [ok |-> TRUE,
          names |-> [i \in 1..extra |-> CollectionName(i)]
                    \o OwnNames(<<"model", "pipeline", "dataset", "job">>),
          calls |-> <<StoreCall("list_collection_names", "", TRUE)>>]

(* ------------------------------- Init --------------------------------- *)
NoRequest == [method |-> "NONE", path |-> "", body |-> EmptyBody]
NoResponse == [status |-> 0]
NotSeen == [seen |-> FALSE]
Seen(items) == [seen |-> TRUE, items |-> items]

Init ==
    /\ db \in {None, "db"}
    /\ store = [c \in Collections |-> <<>>]
    /\ nextId = 1
    /\ req = NoRequest
    /\ resp = NoResponse
    /\ calls = <<>>
    /\ posted = {}
    /\ lastGet = [c \in Collections |-> NotSeen]

Request(method, path, body) == [method |-> method, path |-> path, body |-> body]
Ok(body) == [status |-> 200, body |-> body]
ClientError == [status |-> 422]
ServerError == [status |-> 500]

(* --------------------------- GET / and /test -------------------------- *)
read_root ==
    /\ req' = Request("GET", "/", EmptyBody)
    /\ resp' = Ok([message |-> "AI Hijabi Model Studio API is running"])
    /\ calls' = <<>>
    /\ UNCHANGED <<db, store, nextId, posted, lastGet>>

\* FirstNames without the [:10] slice.
FirstNamesAll(names) == names

\* collections[:10]
FirstNames(names) ==
    SubSeq(names, 1, IF Len(names) < ListLimit THEN Len(names) ELSE ListLimit)

\* The status object test_database builds; url and name are the values of the
\* environment variables DATABASE_URL and DATABASE_NAME (None when unset).
TestResponse(url, name, extra, fault) ==
    LET response == [backend |-> "Running",
                     database |-> "Not Available",
                     database_url |-> "Not Set",
                     database_name |-> "Not Set",
                     connection_status |-> "Not Connected",
                     collections |-> <<>>]
    IN IF db /= None
       THEN LET connected ==
                    [response EXCEPT
                       !.database = "Available",
                       !.database_url = IF url /= None THEN "Set" ELSE "Not Set",
                       !.database_name = IF name /= None THEN name ELSE "Not Set",
                       !.connection_status = "Connected"]
                r == list_collection_names(extra, fault)
            IN [resp |-> Ok(IF r.ok
                            THEN [connected EXCEPT
                                    !.collections = FirstNames(r.names),
                                    !.database = "Connected & Working"]
                            ELSE [connected EXCEPT
                                    !.database = "Connected but Error: " \o r.error]),
                calls |-> r.calls]
       ELSE [resp |-> Ok([response EXCEPT
                            !.database = "Available but not initialized"]),
             calls |-> <<>>]

test_database(url, name, extra, fault) ==
    LET t == TestResponse(url, name, extra, fault)
    IN /\ req' = Request("GET", "/test", EmptyBody)
       /\ resp' = t.resp
       /\ calls' = t.calls
       /\ UNCHANGED <<db, store, nextId, posted, lastGet>>

(* ---------------------------- GET /schema ----------------------------- *)
get_schema ==
    /\ req' = Request("GET", "/schema", EmptyBody)
    /\ resp' = Ok([collections |->
         << [name |-> "model",
             fields |-> <<"name", "description", "identity_seed", "tags",
                          "style_preset", "face_embeddings", "consistency_profile">>],
            [name |-> "pipeline",
             fields |-> <<"name", "version", "is_active", "nodes", "edges">>],
            [name |-> "dataset",
             fields |-> <<"model_id", "title", "status", "size", "items">>],
            [name |-> "job",
             fields |-> <<"type", "model_id", "pipeline_id", "params", "status",
                          "progress", "output">>] >>])
    /\ calls' = <<>>
    /\ UNCHANGED <<db, store, nextId, posted, lastGet>>

(* --------------------------- CRUD endpoints --------------------------- *)
\* What a client learns from a successful POST: the collection, the returned
\* identifier and the validated payload.
Posted(coll, id, payload) == [coll |-> coll, id |-> id, doc |-> payload]

\* A POST handler's effect: the body is validated, then create_document is
\* called once; an exception it raises becomes a server error.
Create(path, coll, body, v, r, extras) ==
    /\ TotalDocs < MaxDocs
    /\ req' = Request("POST", path, body)
    /\ IF ~v.ok
       THEN /\ resp' = ClientError
            /\ calls' = <<>>
            /\ UNCHANGED <<store, nextId, posted>>
       ELSE /\ store' = r.store
            /\ nextId' = r.nextId
            /\ calls' = r.calls
            /\ resp' = IF r.ok THEN Ok(("id" :> r.id) @@ extras) ELSE ServerError
            /\ posted' = IF r.ok
                         THEN posted \cup {Posted(coll, r.id, v.value)}
                         ELSE posted
    /\ lastGet' = [c \in Collections |-> NotSeen]
    /\ UNCHANGED db

\* create_model catching the store's exception and answering 200 all the same.
create_model_swallow(body, fault) ==
    LET v == ValidateModel(body)
        r0 == create_document("model", v.value, fault)
        r == IF r0.ok THEN r0
             ELSE [ok |-> TRUE, id |-> None, store |-> r0.store,
                   nextId |-> r0.nextId, calls |-> r0.calls]
    IN Create("/models", "model", body, v, r, EmptyBody)

create_model(body, fault) ==
    LET v == ValidateModel(body)
        r == create_document("model", v.value, fault)
    IN Create("/models", "model", body, v, r, EmptyBody)

create_pipeline(body, fault) ==
    LET v == ValidatePipeline(body)
        r == create_document("pipeline", v.value, fault)
    IN Create("/pipelines", "pipeline", body, v, r, EmptyBody)

\* create_job calling create_document again when the first call failed.
create_job_retry(body, fault) ==
    LET v == ValidateJob(body)
        r1 == create_document("job", v.value, fault)
        r2 == create_document("job", v.value, fault)
        r == IF r1.ok THEN r1 ELSE [r2 EXCEPT !.calls = r1.calls \o r2.calls]
    IN Create("/jobs", "job", body, v, r, "status" :> v.value.status)

create_job(body, fault) ==
    LET v == ValidateJob(body)
        r == create_document("job", v.value, fault)
    IN Create("/jobs", "job", body, v, r, "status" :> v.value.status)

\* RenameId reading d["_id"] without popping it.
RenameIdKeep(d) ==
    IF "_id" \in DOMAIN d
    THEN [k \in DOMAIN d \cup {"id"} |-> IF k = "id" THEN Str(d["_id"]) ELSE d[k]]
    ELSE d

\* d["id"] = str(d.pop("_id")), when d holds "_id"
RenameId(d) ==
    IF "_id" \in DOMAIN d
    THEN [k \in (DOMAIN d \ {"_id"}) \cup {"id"} |->
            IF k = "id" THEN Str(d["_id"]) ELSE d[k]]
    ELSE d

ListItems(docs) == [i \in 1..Len(docs) |-> RenameId(docs[i])]

\* A GET list handler's effect: get_documents is called once, the returned
\* documents (copies of the stored ones) are renamed and returned.
List(path, coll, r) ==
    /\ req' = Request("GET", path, EmptyBody)
    /\ calls' = r.calls
    /\ resp' = IF r.ok THEN Ok([items |-> ListItems(r.docs)]) ELSE ServerError
    /\ lastGet' = IF r.ok
                  THEN [lastGet EXCEPT ![coll] = Seen(ListItems(r.docs))]
                  ELSE lastGet
    /\ UNCHANGED <<db, store, nextId, posted>>

list_models(fault) == List("/models", "model", get_documents("model", fault))

list_pipelines(fault) ==
    List("/pipelines", "pipeline", get_documents("pipeline", fault))

\* list_jobs reading the model collection.
list_jobs_models(fault) == List("/jobs", "job", get_documents("model", fault))

list_jobs(fault) == List("/jobs", "job", get_documents("job", fault))

(* ---------------------------- POST /generate -------------------------- *)
GenerateTasks ==
    {"face", "fullbody", "angles360", "expression", "background", "dress"}

\* GenerateJobType without the fallback.
GenerateJobTypeStrict(task) == task

GenerateJobType(task) == IF task \in GenerateTasks THEN task ELSE "dataset"

GenerateStatusRunning == "running"

GenerateStatus == "queued"

GenerateProgress == 0

GenerateCollectionDataset == "dataset"

GenerateCollection == "job"

\* JobSchema(type=..., model_id=..., pipeline_id=..., params=..., status=...,
\* progress=...): the keyword arguments, validated as a Job.
GenerateJob(r) ==
    ValidateJob([type |-> GenerateJobType(r.task),
                 model_id |-> r.model_id,
                 pipeline_id |-> r.pipeline_id,
                 params |-> r.params,
                 status |-> GenerateStatus,
                 progress |-> GenerateProgress])

\* generate_assets also "running" the jobs queued before, as a worker would.
generate_assets_advancing(body, fault) ==
    LET v == ValidateGenerateRequest(body)
        job == GenerateJob(v.value)
        r == create_document(GenerateCollection, job.value, fault)
        Advance(jobs) ==
            [i \in 1..Len(jobs) |->
                IF i < Len(jobs) /\ jobs[i].status = "queued"
                THEN [jobs[i] EXCEPT !.status = "running"] ELSE jobs[i]]
    IN /\ TotalDocs < MaxDocs
       /\ req' = Request("POST", "/generate", body)
       /\ IF ~v.ok
          THEN /\ resp' = ClientError
               /\ calls' = <<>>
               /\ UNCHANGED <<store, nextId, posted>>
          ELSE IF ~job.ok
          THEN /\ resp' = ServerError
               /\ calls' = <<>>
               /\ UNCHANGED <<store, nextId, posted>>
          ELSE /\ store' = IF r.ok
                           THEN [r.store EXCEPT !["job"] = Advance(@)]
                           ELSE r.store
               /\ nextId' = r.nextId
               /\ calls' = r.calls
               /\ resp' = IF r.ok
                          THEN Ok([job_id |-> r.id, status |-> "queued"])
                          ELSE ServerError
               /\ posted' = IF r.ok
                            THEN posted \cup {Posted(GenerateCollection, r.id, job.value)}
                            ELSE posted
       /\ lastGet' = [c \in Collections |-> NotSeen]
       /\ UNCHANGED db

generate_assets(body, fault) ==
    LET v == ValidateGenerateRequest(body)
        job == GenerateJob(v.value)
        r == create_document(GenerateCollection, job.value, fault)
    IN /\ TotalDocs < MaxDocs
       /\ req' = Request("POST", "/generate", body)
       /\ IF ~v.ok
          THEN /\ resp' = ClientError
               /\ calls' = <<>>
               /\ UNCHANGED <<store, nextId, posted>>
          ELSE IF ~job.ok
          THEN /\ resp' = ServerError
               /\ calls' = <<>>
               /\ UNCHANGED <<store, nextId, posted>>
          ELSE /\ store' = r.store
               /\ nextId' = r.nextId
               /\ calls' = r.calls
               /\ resp' = IF r.ok
                          THEN Ok([job_id |-> r.id, status |-> "queued"])
                          ELSE ServerError
               /\ posted' = IF r.ok
                            THEN posted \cup {Posted(GenerateCollection, r.id, job.value)}
                            ELSE posted
       /\ lastGet' = [c \in Collections |-> NotSeen]
       /\ UNCHANGED db

Next ==
    \/ read_root
    \/ \E url \in {None, "mongodb://db"}, name \in {None, "studio"},
          extra \in {0, MaxExtraCollections}, fault \in BOOLEAN :
            test_database(url, name, extra, fault)
    \/ get_schema
    \/ \E body \in ModelBodies, fault \in BOOLEAN : create_model(body, fault)
    \/ \E fault \in BOOLEAN : list_models(fault)
    \/ \E body \in PipelineBodies, fault \in BOOLEAN : create_pipeline(body, fault)
    \/ \E fault \in BOOLEAN : list_pipelines(fault)
    \/ \E body \in JobBodies, fault \in BOOLEAN : create_job(body, fault)
    \/ \E fault \in BOOLEAN : list_jobs(fault)
    \/ \E body \in GenerateBodies, fault \in BOOLEAN : generate_assets(body, fault)

Spec == Init /\ [][Next]_vars

(* ======================== checked properties ========================== *)
ListPath == [c \in {"model", "pipeline", "job"} |->
               CASE c = "model" -> "/models"
                 [] c = "pipeline" -> "/pipelines"
                 [] c = "job" -> "/jobs"]

PostPaths == {"/models", "/pipelines", "/jobs", "/generate"}

\* The request most recently answered was a successful GET of collection c.
Listed(c) == req.method = "GET" /\ req.path = ListPath[c] /\ resp.status = 200

IsPost(path) == req.method = "POST" /\ req.path = path

WithoutId(item) == [k \in DOMAIN item \ {"id"} |-> item[k]]

IsPrefix(s, t) == Len(s) <= Len(t) /\ \A i \in 1..Len(s) : t[i] = s[i]

\* C1: once POST /<collection> has returned {id} for a valid payload, a GET of
\* that collection holds an item whose fields equal the validated payload and
\* whose id is the returned one, a non-empty string, and no other item's id.
C1_PostThenGet ==
    \A c \in {"model", "pipeline", "job"} :
        Listed(c) =>
            \A p \in posted :
                p.coll = c =>
                    /\ p.id \in STRING
                    /\ p.id /= ""
                    /\ \E i \in 1..Len(resp.body.items) :
                          /\ resp.body.items[i]["id"] = p.id
                          /\ WithoutId(resp.body.items[i]) = p.doc
                          /\ \A j \in 1..Len(resp.body.items) :
                                j /= i => resp.body.items[j]["id"] /= p.id

C1_Witness ==
    /\ Listed("job")
    /\ Len(resp.body.items) = 2
    /\ Cardinality({p \in posted : p.coll = "job"}) = 2
    /\ \E p \in posted : p.doc.status = "running" /\ p.doc.progress = 40

\* C2: POST /jobs whose type is missing or outside the seven job types, or
\* whose status is outside the four statuses, is answered with a client error,
\* makes no store call and leaves every collection as it was.
BadJobBody(body) ==
    \/ ~Has(body, "type")
    \/ body["type"] \notin {"face", "fullbody", "angles360", "expression",
                            "background", "dress", "dataset"}
    \/ /\ Has(body, "status")
       /\ body["status"] \notin {"queued", "running", "succeeded", "failed"}

C2_BadJobRejected ==
    [][ (req'.method = "POST" /\ req'.path = "/jobs" /\ BadJobBody(req'.body))
        => /\ resp'.status = 422
           /\ calls' = <<>>
           /\ store' = store ]_vars

C2_Witness ==
    /\ IsPost("/jobs")
    /\ Has(req.body, "type") /\ req.body["type"] = "sparkle"
    /\ resp.status = 422
    /\ db /= None
    /\ TotalDocs > 0

\* C3: POST /generate with any task string, the store being available, succeeds
\* and appends exactly one job, whose type is the task when the task is one of
\* the six generation tasks and "dataset" otherwise.
ExpectedType(task) ==
    IF task \in {"face", "fullbody", "angles360", "expression", "background", "dress"}
    THEN task ELSE "dataset"

StoreFaulted(cs) == \E i \in 1..Len(cs) : ~cs[i].ok

C3_GenerateCoerces ==
    [][ (req'.method = "POST" /\ req'.path = "/generate" /\ Has(req'.body, "task")
         /\ db /= None /\ ~StoreFaulted(calls'))
        => /\ resp'.status = 200
           /\ Len(store'["job"]) = Len(store["job"]) + 1
           /\ IsPrefix(store["job"], store'["job"])
           /\ \A c \in Collections \ {"job"} : store'[c] = store[c]
           /\ store'["job"][Len(store'["job"])].type = ExpectedType(req'.body["task"])
      ]_vars

C3_Witness ==
    /\ IsPost("/generate")
    /\ Has(req.body, "task") /\ req.body["task"] = "sparkle"
    /\ resp.status = 200
    /\ Len(store["job"]) = 2
    /\ store["job"][1].type = "dress"
    /\ store["job"][2].type = "dataset"

\* C4: a job inserted by POST /generate has status "queued" and progress 0
\* whatever the body holds, and the response is {job_id, status: "queued"} with
\* job_id the identifier of the inserted record.
C4_GenerateQueued ==
    [][ (req'.method = "POST" /\ req'.path = "/generate"
         /\ Len(store'["job"]) > Len(store["job"]))
        => LET job == store'["job"][Len(store'["job"])]
           IN /\ job.status = "queued"
              /\ job.progress = 0
              /\ resp' = [status |-> 200,
                          body |-> [job_id |-> ToString(job["_id"]),
                                    status |-> "queued"]]
      ]_vars

C4_Witness ==
    /\ IsPost("/generate")
    /\ Has(req.body, "status") /\ req.body["status"] = "running"
    /\ Has(req.body, "progress") /\ req.body["progress"] = 40
    /\ resp.status = 200
    /\ store["job"][Len(store["job"])].status = "queued"

\* C5: every item a GET list endpoint returns holds a string field id, the
\* store-assigned identifier of the record, and no field _id.
C5_IdRenamed ==
    \A c \in {"model", "pipeline", "job"} :
        Listed(c) =>
            /\ Len(resp.body.items) = Len(store[c])
            /\ \A i \in 1..Len(resp.body.items) :
                  LET item == resp.body.items[i]
                  IN /\ "id" \in DOMAIN item
                     /\ "_id" \notin DOMAIN item
                     /\ item["id"] \in STRING
                     /\ item["id"] = ToString(store[c][i]["_id"])

C5_Witness ==
    /\ Listed("model")
    /\ Len(resp.body.items) = 2

\* C6: GET /test answers 200 with the six-field status object, collections
\* holding at most 10 names, whether the store was never initialized, fails
\* to list its collections, or is healthy.
C6_TestNeverFails ==
    (req.method = "GET" /\ req.path = "/test") =>
        /\ resp.status = 200
        /\ DOMAIN resp.body = {"backend", "database", "database_url",
                               "database_name", "connection_status", "collections"}
        /\ resp.body.backend = "Running"
        /\ Len(resp.body.collections) <= 10
        /\ db = None => resp.body.collections = <<>>
        /\ StoreFaulted(calls) => resp.body.collections = <<>>

C6_Witness ==
    /\ req.method = "GET" /\ req.path = "/test"
    /\ TotalDocs > 0
    /\ Len(resp.body.collections) = 10
    /\ resp.body.collections[10] = "collection_10"
    /\ resp.body.database = "Connected & Working"

\* C7: with the store never initialized, the GET list endpoints answer
\* {items: []}, and a POST of a valid body answers with a server error, returns
\* no identifier and stores nothing.
WellFormed(path, body) ==
    CASE path = "/models" -> Has(body, "name")
      [] path = "/pipelines" -> Has(body, "name")
      [] path = "/jobs" -> ~BadJobBody(body)
      [] path = "/generate" -> Has(body, "task")

C7_Uninitialized ==
    db = None =>
        /\ \A c \in Collections : store[c] = <<>>
        /\ \A c \in {"model", "pipeline", "job"} :
              (req.method = "GET" /\ req.path = ListPath[c])
                  => resp = [status |-> 200, body |-> [items |-> <<>>]]
        /\ \A path \in PostPaths :
              (IsPost(path) /\ WellFormed(path, req.body))
                  => resp.status = 500 /\ "body" \notin DOMAIN resp

C7_Witness ==
    /\ db = None
    /\ IsPost("/generate")
    /\ Has(req.body, "task")
    /\ resp.status = 500

\* C8: a stored job keeps its type, status, progress and output through every
\* later request, and every GET /jobs reports for it the values it was
\* created with.
JobValues(d) == <<d.type, d.status, d.progress, d.output>>

C8_JobsFrozen ==
    [][ /\ Len(store'["job"]) >= Len(store["job"])
        /\ \A i \in 1..Len(store["job"]) :
              JobValues(store'["job"][i]) = JobValues(store["job"][i])
        /\ (req'.method = "GET" /\ req'.path = "/jobs" /\ resp'.status = 200)
              => \A p \in posted :
                    p.coll = "job" =>
                        \E i \in 1..Len(resp'.body.items) :
                            /\ resp'.body.items[i]["id"] = p.id
                            /\ JobValues(resp'.body.items[i]) = JobValues(p.doc)
      ]_vars

C8_Witness ==
    /\ Listed("job")
    /\ Len(resp.body.items) = 2
    /\ resp.body.items[1].status = "running"
    /\ resp.body.items[1].progress = 40
    /\ resp.body.items[2].status = "queued"
    /\ resp.body.items[2].type = "dataset"

\* C9: a request makes at most one store call and never repeats one: a POST
\* one insert into its own collection, a GET list one find-all, GET / and
\* GET /schema none, GET /test at most two; a POST adds at most one record.
OwnCollection(path) ==
    CASE path \in {"/models"} -> "model"
      [] path \in {"/pipelines"} -> "pipeline"
      [] path \in {"/jobs", "/generate"} -> "job"

CallsOf(op, coll, cs) ==
    /\ Len(cs) <= 1
    /\ \A i \in 1..Len(cs) : cs[i].op = op /\ cs[i].coll = coll

C9_OneStoreCall ==
    [][ /\ TotalDocs' <= TotalDocs + 1
        /\ (req'.method = "POST")
              => /\ CallsOf("insert_one", OwnCollection(req'.path), calls')
                 /\ resp'.status = 200 => Len(calls') = 1 /\ calls'[1].ok
                 /\ resp'.status = 422 => calls' = <<>>
                 /\ TotalDocs' > TotalDocs => Len(calls') = 1
        /\ (req'.method = "GET" /\ req'.path \in {"/models", "/pipelines", "/jobs"})
              => /\ \E c \in {"model", "pipeline", "job"} :
                      req'.path = ListPath[c] /\ CallsOf("find", c, calls')
                 /\ db /= None => Len(calls') = 1
        /\ (req'.method = "GET" /\ req'.path \in {"/", "/schema"})
              => calls' = <<>>
        /\ (req'.method = "GET" /\ req'.path = "/test")
              => Len(calls') <= 2
      ]_vars

C9_Witness ==
    /\ IsPost("/jobs")
    /\ resp.status = 500
    /\ db /= None
    /\ Len(calls) = 1
    /\ ~calls[1].ok

\* C10: every collection only grows by appended records; a GET leaves every
\* collection unchanged, and a GET list returns what the last GET of the same
\* collection returned when no POST came between; the dataset collection is
\* never written.
C10_AppendOnly ==
    [][ /\ \A c \in Collections : IsPrefix(store[c], store'[c])
        /\ store'["dataset"] = <<>>
        /\ req'.method = "GET" => store' = store
        /\ \A c \in {"model", "pipeline", "job"} :
              (req'.method = "GET" /\ req'.path = ListPath[c]
               /\ resp'.status = 200 /\ lastGet[c].seen)
                  => resp'.body.items = lastGet[c].items
      ]_vars

C10_Witness ==
    /\ Listed("job")
    /\ lastGet["job"].seen
    /\ lastGet["model"].seen
    /\ Len(store["job"]) = 2
    /\ store["job"][2].type = "dataset"
    /\ store["dataset"] = <<>>
====
